---- MODULE Spec2Model ----
(***************************************************************************)
(* Model of the fredy execution orchestrator: the bounded-concurrency      *)
(* runner (runWithConcurrency), the single-flight execution gate           *)
(* (execute / triggerExecution) and the config-file job reconciler         *)
(* (syncConfigJobsToDatabase).                                             *)
(*                                                                         *)
(* JavaScript is single threaded: a handler runs to its next await without *)
(* interleaving, so every action below is one synchronous run of code,     *)
(* from the point it is resumed to the point it suspends or returns.       *)
(***************************************************************************)
EXTENDS Integers, Sequences, FiniteSets, TLC

\* ------------------------------------------------------------------ bounds
MaxBindings == 1      \* provider bindings per stored job
MaxLimit    == 2      \* largest concurrency limit tried
MaxDirect   == 3      \* longest task list handed directly to the runner
MaxTime     == 2      \* Date.now() returns a value in 1..MaxTime
MaxJobs     == 2      \* jobs in the declarative source
MaxBurst    == 3      \* change events in one burst
MaxPlanBindings == 2  \* provider bindings per job handed to the planner alone

\* ------------------------------------------------------------------ state
VARIABLES
  \* --- runWithConcurrency (one activation)
  limit,              \* the limit argument: <<>> (undefined) or <<n>>
  caller,             \* who awaits the runner: "none" | "direct" | "execute"
  tasks,              \* the task list handed to the runner
  maxParallel,        \* Math.max(limit || 1, 1)
  nextTask,           \* index of the next task the for-loop submits
  executing,          \* the Set of promises (task indices) not yet removed
  pstate,             \* per task: "none" | "queued" | "running" (the task is at its await) |
                      \* "caught" (the closure's catch block ran, its promise is about
                      \* to fulfil) | "fulfilled" | "rejected"
  startCount,         \* per task: how many times the task function was invoked
  rpc,                \* runner position: "idle" | "race" | "all" | "returned" | "rejected"
  awaited,            \* the promises the pending race / allSettled was called with
  raceWinner,         \* first settled promise of the pending race (0: none yet)
  unhandled,          \* tasks whose promise.finally() chain rejected with no handler
  errLog,             \* tasks whose closure logged "Error executing pipeline"
  \* --- execute / triggerExecution
  booted,             \* the startup block reached setInterval / first trigger
  executionInFlight,  \* the single-flight flag
  activeCycles,       \* execute() activations past the guard and not yet finished
  lastRun,            \* config.lastRun (0: never set)
  lastCall,           \* what the latest execute() call did: "none" | "accepted" | "dropped"
  cycleExit,          \* how the latest accepted cycle left its try block: "none" |
                      \* "running" | "demo" | "hours" | "noTasks" | "ran" |
                      \* "readThrew" | "runnerThrew"
  policy,             \* config.demoMode and duringWorkingHoursOrNotSet(config, now), as
                      \* they were at the latest accepted call
  cycleRead,          \* the latest accepted cycle called jobStorage.getJobs()
  \* --- provider modules and the closures of the tasks
  activeConfig,       \* per provider module: its active config, <<>> before any init
  initCalls,          \* per task: how many times its closure called provider.init
  \* --- configJobSync
  file,               \* the declarative source (config.json): [jobs, adapters]
  store,              \* the job store: job id -> <<>> (absent) or <<job>>
  syncUser,           \* the user store holds the user 'config_sync'
  syncInProgress,     \* the sync's own single-flight flag
  spc,                \* position of the sync in flight: "idle" | "refreshing" | "reading"
  lastSyncTime,       \* 0 (null) or the time the latest completed sync recorded
  report,             \* what the latest finished sync attempt did
  quiet,              \* the file was not edited since a sync last read it
  readConfig,         \* <<>>, or <<what readConfigFromStorage() has read for the sync
                      \* in flight, which has not resumed yet>>
  \* --- config file watcher
  initPc,             \* initConfigJobSync: "none" | "syncing" | "done"
  fileWatcher,        \* the fs.watch handle is set
  debounceTimer,      \* <<>> (no timer pending) or <<ms left until the timer is due>>
  burstEvents,        \* change events received since the timer was last armed from rest
  burstCalls,         \* sync calls the timer callback made since then
  sinceChange,        \* ms since the latest change event, while its timer is pending
  \* --- external job API
  apiUser,            \* the user store holds the user 'external_api'
  response,           \* HTTP status of the latest response, 0 before any request
  \* --- a pure function applied to an argument
  input,              \* the argument: <<>> or <<value>>
  output              \* the result: <<>> (not applied yet) or <<value>>

runnerVars == <<limit, caller, tasks, maxParallel, nextTask, executing, pstate, startCount,
                rpc, awaited, raceWinner, unhandled, errLog>>
execVars   == <<booted, executionInFlight, activeCycles, lastRun, lastCall, cycleExit,
                policy, cycleRead>>
provVars   == <<activeConfig, initCalls>>
syncVars   == <<file, store, syncUser, syncInProgress, spc, lastSyncTime, report, quiet,
                readConfig>>
watchVars  == <<initPc, fileWatcher, debounceTimer, burstEvents, burstCalls, sinceChange>>
pureVars   == <<input, output>>
orchestratorVars == <<runnerVars, execVars, provVars>>
routerVars == <<apiUser, response>>
reconcilerVars   == <<syncVars, watchVars, routerVars>>
vars       == <<orchestratorVars, reconcilerVars, pureVars>>

\* ------------------------------------------------------------ input sets
JobIds   == {"a", "b"}
ProvIds  == {"p1", "px"}

\* providerMap (part_000:149-153): the ids of the provider modules loaded at startup.
providerMap == {"p1"}

ProviderLists == UNION {[1..n -> ProvIds] : n \in 0..MaxBindings}

\* a job as jobStorage.getJobs() returns it to execute()
StoredJobs == [id : JobIds, enabled : BOOLEAN, provider : ProviderLists]

JobLists == {<<>>} \cup {<<j>> : j \in StoredJobs}
            \cup {p \in StoredJobs \X StoredJobs : p[1].id # p[2].id}

\* a task handed to the runner; guarded = it is the try/catch closure of execute()
Task(job, prov, guarded) == [job |-> job, prov |-> prov, guarded |-> guarded]

DirectTasks     == {Task("-", "-", g) : g \in BOOLEAN}
DirectTaskLists == UNION {[1..n -> DirectTasks] : n \in 0..MaxDirect}

\* limit arguments: undefined, negative, zero, positive
Limits == {<<>>} \cup {<<n>> : n \in (-1)..MaxLimit}

\* pipelineConcurrency (part_000:36-39, 126): always a positive integer
ResolvedLimits == {<<n>> : n \in 1..MaxLimit}

Settled(i) == pstate[i] \in {"fulfilled", "rejected"}

\* A start job queued by Promise.resolve().then(task) is a microtask: start
\* jobs run, in order, before anything queued after them.
StartsPending == \E i \in DOMAIN pstate : pstate[i] = "queued"

\* The microtask queue is not empty: a start job, a finally callback or a
\* resumption of the runner is due. Timers and events are delivered only when
\* it is empty.
MicrotasksPending ==
  \/ StartsPending
  \/ \E i \in DOMAIN pstate : pstate[i] = "caught"
  \/ \E i \in DOMAIN pstate : Settled(i) /\ i \in executing
  \/ rpc = "race" /\ raceWinner # 0
  \/ rpc = "all" /\ \A j \in awaited : Settled(j)

\* -------------------------------------------------------- runWithConcurrency
\* a limit that is missing or below 1 is taken to mean no limit
MaxParallelOfUnlimited(l) ==
  IF l = <<>> THEN MaxDirect + 1 ELSE IF l[1] < 1 THEN MaxDirect + 1 ELSE l[1]

\* part_000:45  Math.max(limit || 1, 1)
MaxParallelOf(l) ==
  LET limitOrOne == IF l = <<>> THEN 1 ELSE IF l[1] = 0 THEN 1 ELSE l[1]
  IN  IF limitOrOne >= 1 THEN limitOrOne ELSE 1

\* SubmitFrom with the capacity test of line 60 off by one (size > maxParallel)
RECURSIVE SubmitFromLate(_, _, _, _)
SubmitFromLate(i, ex, len, mp) ==
  IF i > len
    THEN [next |-> i, executing |-> ex, rpc |-> "all"]
    ELSE LET ex2 == ex \cup {i}
         IN  IF Cardinality(ex2) > mp
               THEN [next |-> i + 1, executing |-> ex2, rpc |-> "race"]
               ELSE SubmitFromLate(i + 1, ex2, len, mp)

\* part_000:56-63: the for-loop from task i on, up to its next await (the race
\* of line 61) or to the end of the list (the allSettled of line 64).
RECURSIVE SubmitFrom(_, _, _, _)
SubmitFrom(i, ex, len, mp) ==
  IF i > len
    THEN [next |-> i, executing |-> ex, rpc |-> "all"]
    ELSE LET ex2 == ex \cup {i}
         IN  IF Cardinality(ex2) >= mp
               THEN [next |-> i + 1, executing |-> ex2, rpc |-> "race"]
               ELSE SubmitFrom(i + 1, ex2, len, mp)

\* The promises of ps that are already settled when a race over ps is called:
\* the race is won by the first of them in insertion order (0: none yet).
FirstSettled(ps, st) ==
  LET done == {j \in ps : st[j] \in {"fulfilled", "rejected"}}
  IN  IF done = {} THEN 0 ELSE CHOOSE j \in done : \A k \in done : j <= k

\* Runs the loop from task i and suspends: the runner's variables after it.
Submit(i, ex, st, mp) ==
  LET r   == SubmitFrom(i, ex, Len(st), mp)
      st2 == [j \in DOMAIN st |-> IF j >= i /\ j < r.next THEN "queued" ELSE st[j]]
  IN  /\ nextTask'   = r.next
      /\ executing'  = r.executing
      /\ pstate'     = st2
      /\ rpc'        = r.rpc
      /\ awaited'    = r.executing
      /\ raceWinner' = IF r.rpc = "race" THEN FirstSettled(r.executing, st2) ELSE 0

\* part_000:41-65, from the call to the first suspension
runWithConcurrency(ts, l, who) ==
  /\ caller' = who
  /\ tasks'  = ts
  /\ limit'  = l
  /\ startCount' = [j \in 1..Len(ts) |-> 0]
  /\ unhandled'  = {}
  /\ errLog'     = {}
  /\ initCalls'  = [j \in 1..Len(ts) |-> 0]
  /\ UNCHANGED activeConfig
  /\ IF Len(ts) = 0
       THEN /\ rpc' = "returned"
            /\ maxParallel' = maxParallel
            /\ nextTask' = 1
            /\ executing' = {}
            /\ pstate' = <<>>
            /\ awaited' = {}
            /\ raceWinner' = 0
       ELSE /\ maxParallel' = MaxParallelOf(l)
            /\ Submit(1, {}, [j \in 1..Len(ts) |-> "none"], MaxParallelOf(l))

\* TaskClosure without its try/catch
TaskClosureNoCatch(ok) == IF ok THEN "fulfilled" ELSE "rejected"

\* part_000:237-250: the closure execute() pushes. Whatever init or the pipeline
\* throws is caught and logged, so the closure's promise always fulfils.
TaskClosure(ok) == "fulfilled"

\* a task with no try/catch of its own: its promise rejects when it throws
RawTask(ok) == IF ok THEN "fulfilled" ELSE "rejected"

TaskResult(t, ok) == IF t.guarded THEN TaskClosure(ok) ELSE RawTask(ok)

\* part_000:48-54: the race's rejection is swallowed by the try/catch
waitForNext(raceResult) == "resumed"

\* ExitCycle with the flag reset at the end of the try body instead of in a
\* finally block: only the normal completion resets it
ExitCycleNoFinally(how, active) ==
  /\ executionInFlight' = (how # "ran")
  /\ activeCycles' = active - 1
  /\ cycleExit' = how

\* part_000:261-263: the finally block of execute(); active = activations in
\* flight while this one runs
ExitCycle(how, active) ==
  /\ executionInFlight' = FALSE
  /\ activeCycles' = active - 1
  /\ cycleExit' = how

\* The runner's async function completes (how = "returned") or throws
\* (how = "rejected"); execute(), when it is the caller, resumes after its
\* await (part_000:260) and leaves through its finally block.
RunnerEnds(how) ==
  /\ rpc' = how
  /\ UNCHANGED <<limit, caller, tasks, maxParallel, nextTask, executing, pstate,
                 startCount, awaited, raceWinner, unhandled, errLog>>
  /\ IF caller = "execute"
       THEN /\ ExitCycle(IF how = "returned" THEN "ran" ELSE "runnerThrew", activeCycles)
            /\ UNCHANGED <<booted, lastRun, lastCall, policy, cycleRead>>
       ELSE UNCHANGED execVars
  /\ UNCHANGED <<provVars, reconcilerVars, pureVars>>

\* the config a provider module holds after init(prov, job.blacklist): the
\* binding and the blacklist of the job
BindingConfig(prov, job) == [prov |-> prov, blacklist |-> job]

\* provider.init(prov, job.blacklist): it overwrites the active config of the
\* module, which all tasks of that provider share. When it throws it may have
\* overwritten it already.
init(configs, prov, job, throws) ==
  LET written == [configs EXCEPT ![prov] = <<BindingConfig(prov, job)>>]
  IN  IF throws THEN {configs, written} ELSE {written}

\* the closure has a try/catch around init alone and goes on to the pipeline
ClosureAfterInitGoesOn(initThrows) == "running"

\* part_000:238-249: the pipeline is created and awaited after init returned;
\* a throw of init goes to the catch block and the closure returns
ClosureAfterInit(initThrows) == IF initThrows THEN "caught" ELSE "running"

\* part_000:57: the microtask queued by Promise.resolve().then(task) invokes the
\* task; start jobs run in submission order. For a closure of execute() the
\* synchronous part is provider.init (line 239), which may throw.
TaskStart(i) ==
  /\ i \in DOMAIN pstate
  /\ pstate[i] = "queued"
  /\ \A j \in DOMAIN pstate : j < i => pstate[j] # "queued"
  /\ startCount' = [startCount EXCEPT ![i] = @ + 1]
  /\ IF tasks[i].guarded
       THEN \E initThrows \in BOOLEAN :
              /\ pstate' = [pstate EXCEPT ![i] = ClosureAfterInit(initThrows)]
              /\ errLog' = IF initThrows THEN errLog \cup {i} ELSE errLog
              /\ initCalls' = [initCalls EXCEPT ![i] = @ + 1]
              /\ activeConfig' \in init(activeConfig, tasks[i].prov, tasks[i].job, initThrows)
       ELSE /\ pstate' = [pstate EXCEPT ![i] = "running"]
            /\ UNCHANGED <<errLog, provVars>>
  /\ UNCHANGED <<limit, caller, tasks, maxParallel, nextTask, executing, rpc,
                 awaited, raceWinner, unhandled>>
  /\ UNCHANGED <<execVars, reconcilerVars, pureVars>>

\* The task's promise settles: the pipeline finished or threw (part_000:240-249),
\* or a raw task resolved or rejected.
TaskSettle(i) ==
  /\ i \in DOMAIN pstate
  /\ ~StartsPending
  /\ pstate[i] \in {"running", "caught"}
  /\ \E ok \in (IF pstate[i] = "caught" THEN {FALSE} ELSE BOOLEAN) :
       /\ pstate' = [pstate EXCEPT ![i] = TaskResult(tasks[i], ok)]
       /\ errLog' = IF tasks[i].guarded /\ ~ok THEN errLog \cup {i} ELSE errLog
  /\ raceWinner' = IF rpc = "race" /\ raceWinner = 0 /\ i \in awaited
                     THEN i ELSE raceWinner
  /\ UNCHANGED <<limit, caller, tasks, maxParallel, nextTask, executing, startCount,
                 rpc, awaited, unhandled>>
  /\ UNCHANGED <<execVars, provVars, reconcilerVars, pureVars>>

\* part_000:59: promise.finally(() => executing.delete(promise)). The promise
\* finally() returns has no handler: it rejects unhandled when the task rejected
\* (part_000:68-71 logs it and lets the process continue).
FinallyDelete(i) ==
  /\ i \in DOMAIN pstate
  /\ Settled(i)
  /\ i \in executing
  /\ executing' = executing \ {i}
  /\ unhandled' = IF pstate[i] = "rejected" THEN unhandled \cup {i} ELSE unhandled
  /\ UNCHANGED <<limit, caller, tasks, maxParallel, nextTask, pstate, startCount,
                 rpc, awaited, raceWinner, errLog>>
  /\ UNCHANGED <<execVars, provVars, reconcilerVars, pureVars>>

\* part_000:60-62: the await of waitForNext() resumes. The race is settled by
\* its first settled promise, whose finally callback was registered before the
\* race's reaction and so has already removed it from the set.
RaceResume ==
  /\ rpc = "race"
  /\ raceWinner # 0
  /\ raceWinner \notin executing
  /\ ~StartsPending
  /\ IF waitForNext(pstate[raceWinner]) = "resumed"
       THEN /\ Submit(nextTask, executing, pstate, maxParallel)
            /\ UNCHANGED <<limit, caller, tasks, maxParallel, startCount, unhandled, errLog>>
            /\ UNCHANGED <<execVars, provVars, reconcilerVars, pureVars>>
       ELSE RunnerEnds("rejected")

\* AllSettledResume without the await of line 64: the runner returns as soon
\* as the loop has submitted the last task
AllSettledResumeEarly ==
  /\ rpc = "all"
  /\ ~StartsPending
  /\ RunnerEnds("returned")

\* part_000:64: Promise.allSettled over the promises still in the set. Its
\* reaction on each promise was registered after that promise's finally
\* callback, so every awaited promise has left the set when it resumes.
AllSettledResume ==
  /\ rpc = "all"
  /\ \A j \in awaited : Settled(j) /\ j \notin executing
  /\ ~StartsPending
  /\ RunnerEnds("returned")

\* runWithConcurrency called with an arbitrary task list and limit
DirectCall ==
  /\ caller = "direct"
  /\ rpc = "idle"
  /\ runWithConcurrency(tasks, limit, "direct")
  /\ UNCHANGED <<execVars, reconcilerVars, pureVars>>

\* ------------------------------------------------------------------ execute
\* part_000:225-227: the jobs a cycle plans for
Schedulable(job) == job.enabled /\ Len(job.provider) > 0

\* BindingTasks with a break in place of the continue of line 235: the first
\* binding whose provider is not available ends the job's bindings
RECURSIVE BindingTasksStopAtUnknown(_, _)
BindingTasksStopAtUnknown(job, k) ==
  IF k > Len(job.provider)
    THEN <<>>
    ELSE IF job.provider[k] \in providerMap
           THEN <<Task(job.id, job.provider[k], TRUE)>> \o BindingTasksStopAtUnknown(job, k + 1)
           ELSE <<>>

\* part_000:231-251: one closure per binding whose provider id is in providerMap
RECURSIVE BindingTasks(_, _)
BindingTasks(job, k) ==
  IF k > Len(job.provider)
    THEN <<>>
    ELSE (IF job.provider[k] \in providerMap
            THEN <<Task(job.id, job.provider[k], TRUE)>>
            ELSE <<>>) \o BindingTasks(job, k + 1)

\* part_000:225-252: the task list of a cycle, in job-then-binding order
RECURSIVE PlanTasks(_, _)
PlanTasks(jobs, n) ==
  IF n > Len(jobs)
    THEN <<>>
    ELSE (IF Schedulable(jobs[n]) THEN BindingTasks(jobs[n], 1) ELSE <<>>)
         \o PlanTasks(jobs, n + 1)

\* part_000:225-252 for every outcome of jobStorage.getJobs(): it throws
\* (ok = FALSE), or returns the jobs the store holds and the cycle plans them
PlanOutcomes == {[ok |-> FALSE, tasks |-> <<>>]}
                \cup {[ok |-> TRUE, tasks |-> PlanTasks(jl, 1)] : jl \in JobLists}

\* the job lists handed to the planner alone: up to MaxPlanBindings bindings
PlanJobs == [id : JobIds, enabled : BOOLEAN,
             provider : UNION {[1..n -> ProvIds] : n \in 0..MaxPlanBindings}]

PlanJobLists == {<<>>} \cup {<<j>> : j \in PlanJobs}
                \cup {p \in PlanJobs \X PlanJobs : p[1].id # p[2].id}

\* part_000:225-252 applied to the job list in input
PlanApplied ==
  /\ input # <<>>
  /\ output = <<>>
  /\ output' = <<PlanTasks(input[1], 1)>>
  /\ UNCHANGED <<input, orchestratorVars, reconcilerVars>>

\* Date.now(): a clock that never runs backwards, read after it returned last
DateNow(last) == {t \in 1..MaxTime : t >= last}

\* SingleFlightGuard with the test of line 207 missing
SingleFlightGuardOff == TRUE

\* part_000:207-210: the single-flight guard
SingleFlightGuard == ~executionInFlight

\* only demo mode is tested: the working hours are ignored
SkipReasonDemoOnly(demoMode, during) == IF demoMode THEN "demo" ELSE ""

\* part_000:213-222: the policy gates, in order. "": both pass.
SkipReason(demoMode, during) ==
  IF demoMode THEN "demo" ELSE IF ~during THEN "hours" ELSE ""

\* the start time is recorded before the gates are tested
GateSkipsStamped(how) ==
  /\ ExitCycle(how, activeCycles + 1)
  /\ cycleRead' = FALSE
  /\ lastRun' \in DateNow(lastRun)
  /\ UNCHANGED <<runnerVars, provVars>>

\* part_000:214-216, 220-222: the return of a gate, through the finally block
GateSkips(how) ==
  /\ ExitCycle(how, activeCycles + 1)
  /\ cycleRead' = FALSE
  /\ UNCHANGED <<runnerVars, provVars, lastRun>>

\* part_000:206-264: execute() from its call to its first suspension (the await
\* of line 260) or to its return. src names the trigger.
execute(src) ==
  IF ~SingleFlightGuard
    THEN /\ lastCall' = "dropped"
         /\ UNCHANGED <<runnerVars, provVars, executionInFlight, activeCycles, lastRun,
                        cycleExit, policy, cycleRead>>
    ELSE /\ lastCall' = "accepted"
         /\ \E demoMode \in BOOLEAN, during \in BOOLEAN :
              /\ policy' = [demoMode |-> demoMode, duringWorkingHours |-> during]
              /\ IF SkipReason(demoMode, during) # ""
                   THEN GateSkips(SkipReason(demoMode, during))
                   ELSE \* both gates pass (224-260)
                        /\ lastRun' \in DateNow(lastRun)
                        /\ cycleRead' = TRUE
                        /\ \E plan \in PlanOutcomes :
                             IF ~plan.ok
                               THEN /\ ExitCycle("readThrew", activeCycles + 1)
                                    /\ UNCHANGED <<runnerVars, provVars>>
                             ELSE IF Len(plan.tasks) = 0
                               THEN /\ ExitCycle("noTasks", activeCycles + 1)
                                    /\ UNCHANGED <<runnerVars, provVars>>
                             ELSE /\ executionInFlight' = TRUE
                                  /\ activeCycles' = activeCycles + 1
                                  /\ cycleExit' = "running"
                                  /\ runWithConcurrency(plan.tasks, limit, "execute")

\* the startup block arms the interval timer and leaves the first cycle to
\* the first tick
StartupNoTrigger ==
  /\ ~booted
  /\ caller = "none"
  /\ booted' = TRUE
  /\ UNCHANGED <<runnerVars, provVars, executionInFlight, activeCycles, lastRun, lastCall,
                 cycleExit, policy, cycleRead>>
  /\ UNCHANGED <<reconcilerVars, pureVars>>

\* part_000:266-268, 275-277: the startup block arms the interval timer and
\* triggers the first cycle
Startup ==
  /\ ~booted
  /\ caller = "none"
  /\ booted' = TRUE
  /\ execute("startup")
  /\ UNCHANGED <<reconcilerVars, pureVars>>

\* part_000:275: the interval timer fires triggerExecution
TimerTick ==
  /\ booted
  /\ ~MicrotasksPending
  /\ booted' = booted
  /\ execute("timer")
  /\ UNCHANGED <<reconcilerVars, pureVars>>

\* part_000:270-273: the 'jobs:runAll' event fires triggerExecution
RunAllEvent ==
  /\ booted
  /\ ~MicrotasksPending
  /\ booted' = booted
  /\ execute("event")
  /\ UNCHANGED <<reconcilerVars, pureVars>>

\* ------------------------------------------------------------ configJobSync
\* configJobSync.js:14
CONFIG_SYNC_USER_ID == "config_sync"

\* process.env.BOT_TOKEN and process.env.RAW_FEED_CHANNEL_ID (both set)
EnvBotToken  == "T"
EnvChannelId == "C"

\* An optional object is <<>> (absent) or <<object>>; an absent string is "".
\* The fields / args object of an adapter:
AdapterFields(token, chatId) == [token |-> token, chatId |-> chatId]

\* a notification adapter as written in the source or held by the store
Adapter(type, botToken, chatId, id, fields, args) ==
  [type |-> type, botToken |-> botToken, chatId |-> chatId,
   id |-> id, fields |-> fields, args |-> args]

\* DB format: { id, fields: {token, chatId} }
AdCanon  == Adapter("", "", "", "telegram", <<AdapterFields("${BOT_TOKEN}", "C")>>, <<>>)
\* config format: { id, args: {token, chatId} }
AdArgs   == Adapter("", "", "", "telegram", <<>>, <<AdapterFields("T", "C")>>)
\* global adapter format: { type, botToken, chatId }
AdLegacy == Adapter("telegram", "T", "C", "", <<>>, <<>>)
\* {}
AdEmpty  == Adapter("", "", "", "", <<>>, <<>>)

\* a job of the declarative source. id "" is a job without id; enabled is
\* "unset", "true" or "false"; notificationAdapter is <<>> (not an array) or
\* <<list>>
JobConfig(id, enabled, adapters) ==
  [id |-> id, enabled |-> enabled, provider |-> <<"p1">>, notificationAdapter |-> adapters]

JobConfigs == { JobConfig("a", "unset", <<(<<AdCanon>>)>>),
                JobConfig("a", "false", <<(<<AdEmpty, AdArgs>>)>>),
                JobConfig("b", "unset", <<>>),
                JobConfig("", "unset", <<(<<AdCanon>>)>>) }

\* the global adapters of the source: none, or the legacy-shaped one
GlobalAdapters == {<<>>, <<AdLegacy>>}

\* the job lists tried: at most MaxJobs jobs, no identifier twice, the jobs
\* with identifier "a" first, the job without identifier last
Rank(jobConfig) == IF jobConfig.id = "a" THEN 1 ELSE IF jobConfig.id = "b" THEN 2 ELSE 3

JobConfigLists ==
  {l \in UNION {[1..n -> JobConfigs] : n \in 0..MaxJobs} :
     \A k \in 1..(Len(l) - 1) : Rank(l[k]) < Rank(l[k + 1])}

Sources == [jobs : JobConfigLists, adapters : GlobalAdapters]

\* configJobSync.js:24-44: ${BOT_TOKEN} and ${RAW_FEED_CHANNEL_ID} are replaced
\* in every string of the config that holds them
ReplaceInString(v) ==
  IF v = "${BOT_TOKEN}" THEN EnvBotToken
  ELSE IF v = "${RAW_FEED_CHANNEL_ID}" THEN EnvChannelId
  ELSE v

ReplaceInFields(o) ==
  [k \in 1..Len(o) |-> AdapterFields(ReplaceInString(o[k].token), ReplaceInString(o[k].chatId))]

ReplaceInAdapter(a) ==
  Adapter(ReplaceInString(a.type), ReplaceInString(a.botToken), ReplaceInString(a.chatId),
          ReplaceInString(a.id), ReplaceInFields(a.fields), ReplaceInFields(a.args))

ReplaceInAdapters(as) == [k \in 1..Len(as) |-> ReplaceInAdapter(as[k])]

replaceEnvPlaceholdersSimple(cfg) ==
  [jobs |-> [k \in 1..Len(cfg.jobs) |->
               [cfg.jobs[k] EXCEPT
                  !.notificationAdapter =
                    [n \in 1..Len(@) |-> ReplaceInAdapters(@[n])]]],
   adapters |-> ReplaceInAdapters(cfg.adapters)]

\* convertNotificationAdapter with the test for an id (lines 85-87) moved
\* before the test for the global adapter format
convertNotificationAdapterIdFirst(adapter) ==
  IF adapter.id = "" THEN <<>>
  ELSE IF adapter.type # "" /\ adapter.botToken # "" /\ adapter.chatId # ""
    THEN <<Adapter("", "", "", adapter.type,
                   <<AdapterFields(adapter.botToken, adapter.chatId)>>, <<>>)>>
  ELSE IF adapter.fields # <<>> THEN <<adapter>>
  ELSE IF adapter.args # <<>>
    THEN <<Adapter("", "", "", adapter.id, adapter.args, <<>>)>>
  ELSE <<Adapter("", "", "", adapter.id, <<AdapterFields("", "")>>, <<>>)>>

\* configJobSync.js:68-107: <<>> is null, <<adapter>> the converted adapter
convertNotificationAdapter(adapter) ==
  IF adapter.type # "" /\ adapter.botToken # "" /\ adapter.chatId # ""
    THEN <<Adapter("", "", "", adapter.type,
                   <<AdapterFields(adapter.botToken, adapter.chatId)>>, <<>>)>>
  ELSE IF adapter.id = "" THEN <<>>
  ELSE IF adapter.fields # <<>> THEN <<adapter>>
  ELSE IF adapter.args # <<>>
    THEN <<Adapter("", "", "", adapter.id, adapter.args, <<>>)>>
  ELSE <<Adapter("", "", "", adapter.id, <<AdapterFields("", "")>>, <<>>)>>

\* the adapters convertNotificationAdapter is tried on: every combination of
\* present and absent properties
AdapterInputs ==
  {Adapter(type, botToken, chatId, id, fields, args) :
     type \in {"", "telegram"}, botToken \in {"", "T"}, chatId \in {"", "C"},
     id \in {"", "telegram", "slack"},
     fields \in {<<>>, <<AdapterFields("T", "C")>>, <<AdapterFields("", "")>>},
     args \in {<<>>, <<AdapterFields("T2", "C2")>>}}

\* configJobSync.js:68-107 applied to the adapter in input
ConvertApplied ==
  /\ input # <<>>
  /\ output = <<>>
  /\ output' = <<convertNotificationAdapter(input[1])>>
  /\ UNCHANGED <<input, orchestratorVars, reconcilerVars>>

\* list.map(convertNotificationAdapter).filter(Boolean)
RECURSIVE ConvertAll(_)
ConvertAll(list) ==
  IF list = <<>> THEN <<>>
  ELSE convertNotificationAdapter(Head(list)) \o ConvertAll(Tail(list))

\* the global adapters are added to the job's own, whether or not one of its
\* own is valid
NormalizedAdaptersWithGlobal(jobConfig, currentConfig) ==
  LET own == IF jobConfig.notificationAdapter = <<>>
               THEN <<>>
               ELSE ConvertAll(jobConfig.notificationAdapter[1])
  IN  own \o ConvertAll(currentConfig.adapters)

\* configJobSync.js:121-134: the job's own adapters, or the global ones when
\* none of its own is valid
NormalizedAdapters(jobConfig, currentConfig) ==
  LET own == IF jobConfig.notificationAdapter = <<>>
               THEN <<>>
               ELSE ConvertAll(jobConfig.notificationAdapter[1])
  IN  IF own = <<>> THEN ConvertAll(currentConfig.adapters) ELSE own

\* configJobSync.js:143-152: the record handed to upsertJob
JobData(jobConfig, adapters) ==
  [userId |-> CONFIG_SYNC_USER_ID,
   name |-> jobConfig.id,
   enabled |-> (jobConfig.enabled # "false"),
   provider |-> jobConfig.provider,
   notificationAdapter |-> adapters,
   shareWithUsers |-> <<>>,
   blacklist |-> <<>>]

\* jobStorage.upsertJob: the row of jobId is inserted or replaced
upsertJob(st, jobId, data) == [st EXCEPT ![jobId] = <<data>>]

\* jobStorage.removeJob: the row of id is deleted
removeJob(st, id) == [st EXCEPT ![id] = <<>>]

\* the order in which jobStorage.getJobs() lists the rows
StoreOrder == <<"a", "b">>

\* jobStorage.getJobs(): the ids of the rows, each with its row st[id][1]
getJobs(st) ==
  LET present(id) == st[id] # <<>>
  IN  SelectSeq(StoreOrder, present)

\* syncJobToDatabase without the test of lines 137-140: a job with no adapter
\* at all is written
syncJobToDatabaseNoAdapterCheck(jobConfig, currentConfig, st, throws) ==
  IF jobConfig.id = ""
    THEN [synced |-> FALSE, called |-> FALSE, store |-> st]
  ELSE IF throws
    THEN [synced |-> FALSE, called |-> TRUE, store |-> st]
  ELSE [synced |-> TRUE, called |-> TRUE,
        store |-> upsertJob(st, jobConfig.id,
                            JobData(jobConfig, NormalizedAdapters(jobConfig, currentConfig)))]

\* configJobSync.js:114-159: one declarative job. throws = upsertJob throws
\* for it. The result: whether it was synced, whether upsertJob was called,
\* and the store afterwards.
syncJobToDatabase(jobConfig, currentConfig, st, throws) ==
  IF jobConfig.id = ""
    THEN [synced |-> FALSE, called |-> FALSE, store |-> st]
  ELSE IF NormalizedAdapters(jobConfig, currentConfig) = <<>>
    THEN [synced |-> FALSE, called |-> FALSE, store |-> st]
  ELSE IF throws
    THEN [synced |-> FALSE, called |-> TRUE, store |-> st]
  ELSE [synced |-> TRUE, called |-> TRUE,
        store |-> upsertJob(st, jobConfig.id,
                            JobData(jobConfig, NormalizedAdapters(jobConfig, currentConfig)))]

\* configJobSync.js:203-212: the loop over the declarative jobs from job k on;
\* faulty = the positions whose upsertJob throws
RECURSIVE SyncJobs(_, _, _, _)
SyncJobs(k, currentConfig, st, faulty) ==
  IF k > Len(currentConfig.jobs)
    THEN [store |-> st, synced |-> 0, skipped |-> 0, upsertCalls |-> 0]
    ELSE LET one  == syncJobToDatabase(currentConfig.jobs[k], currentConfig, st, k \in faulty)
             rest == SyncJobs(k + 1, currentConfig, one.store, faulty)
         IN  [store |-> rest.store,
              synced |-> rest.synced + (IF one.synced THEN 1 ELSE 0),
              skipped |-> rest.skipped + (IF one.synced THEN 0 ELSE 1),
              upsertCalls |-> rest.upsertCalls + (IF one.called THEN 1 ELSE 0)]

\* every row is taken for one of the reconciler's own
OwnedByAnyone(job) == TRUE

\* configJobSync.js:198: the rows the reconciler owns
OwnedByConfigSync(job) == job.userId = CONFIG_SYNC_USER_ID

ExistingJobs(st) ==
  LET owned(id) == OwnedByConfigSync(st[id][1])
  IN  SelectSeq(getJobs(st), owned)

\* configJobSync.js:200
ConfigJobIds(configJobs) == {configJobs[k].id : k \in 1..Len(configJobs)}

\* every owned row is removed, whether the source holds its id or not
JobsToRemoveAllOwned(existingJobs, configJobIds) == existingJobs

\* configJobSync.js:215: the owned rows whose id the source no longer holds
JobsToRemove(existingJobs, configJobIds) ==
  LET gone(id) == id \notin configJobIds
  IN  SelectSeq(existingJobs, gone)

\* configJobSync.js:216-219: removeJob for each job of the list in turn; the
\* failAt-th call throws (0: none does)
RECURSIVE RemoveJobs(_, _, _, _)
RemoveJobs(list, k, st, failAt) ==
  IF k > Len(list) THEN [store |-> st, removeCalls |-> k - 1, threw |-> FALSE]
  ELSE IF k = failAt THEN [store |-> st, removeCalls |-> k, threw |-> TRUE]
  ELSE RemoveJobs(list, k + 1, removeJob(st, list[k]), failAt)

\* { type, botToken }: the global adapter format without its chatId
AdHalf == Adapter("telegram", "T", "", "", <<>>, <<>>)

\* the adapter lists a declarative job is tried with: missing or not a list,
\* empty, invalid entries only, valid and invalid entries, valid entries only
OwnAdapterLists ==
  {<<>>, <<(<<>>)>>, <<(<<AdEmpty>>)>>, <<(<<AdEmpty, AdHalf>>)>>,
   <<(<<AdEmpty, AdArgs>>)>>, <<(<<AdCanon>>)>>, <<(<<AdArgs, AdEmpty, AdLegacy>>)>>,
   <<(<<AdLegacy, AdCanon>>)>>}

\* the global adapter lists tried with them
GlobalAdapterLists ==
  {<<>>, <<AdLegacy>>, <<AdEmpty>>, <<AdHalf, AdLegacy>>, <<AdArgs>>}

\* a declarative job and the config it is part of
SyncJobInputs ==
  {[jobConfig |-> JobConfig(id, enabled, own),
    currentConfig |-> [jobs |-> <<JobConfig(id, enabled, own)>>, adapters |-> global]] :
     id \in {"a", ""}, enabled \in {"unset", "false"},
     own \in OwnAdapterLists, global \in GlobalAdapterLists}

\* configJobSync.js:114-159 applied to the job in input, on an empty store
SyncJobApplied ==
  /\ input # <<>>
  /\ output = <<>>
  /\ output' = <<syncJobToDatabase(input[1].jobConfig, input[1].currentConfig,
                                   [id \in JobIds |-> <<>>], FALSE)>>
  /\ UNCHANGED <<input, orchestratorVars, reconcilerVars>>

\* the rows the store can hold before the process starts: one made in the
\* UI, or one left by a sync of an earlier run
UiJob(id) ==
  [userId |-> "ui", name |-> id, enabled |-> TRUE, provider |-> <<"p1">>,
   notificationAdapter |-> ConvertAll(<<AdArgs>>), shareWithUsers |-> <<>>,
   blacklist |-> <<>>]

SyncedJob(id) ==
  JobData(JobConfig(id, "unset", <<>>), ConvertAll(<<AdLegacy>>))

InitialStores ==
  {st \in [JobIds -> UNION {{<<>>, <<UiJob(id)>>, <<SyncedJob(id)>>} : id \in JobIds}] :
     \A id \in JobIds : st[id] \in {<<>>, <<UiJob(id)>>, <<SyncedJob(id)>>}}

\* what a sync attempt did to the store: the calls it made, the jobs it
\* counted as synced and as skipped, the positions of the jobs whose upsertJob
\* threw
DidNothing ==
  [upsertCalls |-> 0, removeCalls |-> 0, synced |-> 0, skipped |-> 0, threw |-> {}]

NoReport ==
  [outcome |-> "none", failedAt |-> "", promise |-> "none", clean |-> FALSE,
   repeat |-> FALSE, storeChanged |-> FALSE, upsertCalls |-> 0, removeCalls |-> 0,
   synced |-> 0, skipped |-> 0, threw |-> {}]

\* configJobSync.js:225-226: the catch block logs the error, and the async
\* function completes
TopLevelCatch(failedAt) == "fulfilled"

\* the source had not been edited between the read of the sync before and the
\* read of this sync
QuietBeforeRead == IF readConfig = <<>> THEN quiet ELSE readConfig[1].quietBefore

\* SyncEnds without the finally block of lines 227-229: only the return of
\* the empty source (line 193) resets the flag
SyncEndsNoFinally(outcome, failedAt, fresh, st, did) ==
  /\ syncInProgress' = (outcome # "empty")
  /\ spc' = "idle"
  /\ store' = st
  /\ quiet' = IF fresh /\ readConfig = <<>> THEN TRUE ELSE quiet
  /\ readConfig' = <<>>
  /\ report' = [outcome |-> outcome, failedAt |-> failedAt,
                promise |-> "fulfilled",
                clean |-> outcome # "failed" /\ did.threw = {},
                repeat |-> fresh /\ QuietBeforeRead /\ report.clean,
                storeChanged |-> st # store,
                upsertCalls |-> did.upsertCalls, removeCalls |-> did.removeCalls,
                synced |-> did.synced, skipped |-> did.skipped, threw |-> did.threw]

\* configJobSync.js:225-229: the sync leaves its try block. outcome is
\* "completed" (line 221 reached), "empty" (the return of line 194) or "failed"
\* (the catch of line 225, failedAt naming the call that threw); fresh: the
\* source was read by this attempt; did: what it did to the store.
SyncEnds(outcome, failedAt, fresh, st, did) ==
  /\ syncInProgress' = FALSE
  /\ spc' = "idle"
  /\ store' = st
  /\ quiet' = IF fresh /\ readConfig = <<>> THEN TRUE ELSE quiet
  /\ readConfig' = <<>>
  /\ report' = [outcome |-> outcome, failedAt |-> failedAt,
                promise |-> IF outcome = "failed" THEN TopLevelCatch(failedAt)
                                                  ELSE "fulfilled",
                clean |-> outcome # "failed" /\ did.threw = {},
                repeat |-> fresh /\ QuietBeforeRead /\ report.clean,
                storeChanged |-> st # store,
                upsertCalls |-> did.upsertCalls, removeCalls |-> did.removeCalls,
                synced |-> did.synced, skipped |-> did.skipped, threw |-> did.threw]

\* configJobSync.js:49-60
ensureConfigSyncUser == syncUser' = TRUE

\* configJobSync.js:164-178: the call up to `await refreshConfig()`
syncConfigJobsToDatabase ==
  IF syncInProgress
    THEN UNCHANGED syncVars
    ELSE /\ UNCHANGED file
         /\ \/ \* getUser or upsertUser throws
               /\ SyncEnds("failed", "ensureConfigSyncUser", FALSE, store, DidNothing)
               /\ UNCHANGED <<syncUser, lastSyncTime>>
            \/ /\ ensureConfigSyncUser
               /\ syncInProgress' = TRUE
               /\ spc' = "refreshing"
               /\ UNCHANGED <<store, lastSyncTime, report, quiet, readConfig>>

\* initConfigJobSync awaits a sync that has ended: its continuation is a
\* microtask, run before any other call is served
InitResumePending == initPc = "syncing" /\ spc = "idle"

\* configJobSync.js:309-311
triggerSync ==
  /\ ~InitResumePending
  /\ syncConfigJobsToDatabase
  /\ UNCHANGED <<orchestratorVars, watchVars, routerVars, pureVars>>

\* configJobSync.js:178-183: refreshConfig() settles
SyncRefreshed ==
  /\ spc = "refreshing"
  /\ \/ SyncEnds("failed", "refreshConfig", FALSE, store, DidNothing)
     \/ /\ spc' = "reading"
        /\ UNCHANGED <<store, syncInProgress, report, quiet, readConfig>>
  /\ UNCHANGED <<file, syncUser, lastSyncTime>>
  /\ UNCHANGED <<orchestratorVars, watchVars, routerVars, pureVars>>

\* Reconcile with the store listed (line 198) after the loop over the
\* declarative jobs instead of before it
ReconcileListsLate(currentConfig, getJobsThrows, faulty, failAt) ==
  LET configJobs   == currentConfig.jobs
      synced       == SyncJobs(1, currentConfig, store, faulty)
      existingJobs == ExistingJobs(synced.store)
      jobsToRemove == JobsToRemove(existingJobs, ConfigJobIds(configJobs))
      removed      == RemoveJobs(jobsToRemove, 1, synced.store, failAt)
      did          == [upsertCalls |-> synced.upsertCalls,
                       removeCalls |-> removed.removeCalls,
                       synced |-> synced.synced, skipped |-> synced.skipped,
                       threw |-> faulty]
  IN  IF getJobsThrows
        THEN SyncEnds("failed", "getJobs", TRUE, synced.store,
                      [did EXCEPT !.removeCalls = 0])
             /\ UNCHANGED lastSyncTime
      ELSE IF removed.threw
        THEN SyncEnds("failed", "removeJob", TRUE, removed.store, did)
             /\ UNCHANGED lastSyncTime
      ELSE /\ SyncEnds("completed", "", TRUE, removed.store, did)
           /\ lastSyncTime' \in DateNow(lastSyncTime)

\* the positions of the declarative jobs for which upsertJob is called
UpsertPositions(currentConfig) ==
  {k \in 1..Len(currentConfig.jobs) :
     syncJobToDatabase(currentConfig.jobs[k], currentConfig, store, TRUE).called}

\* configJobSync.js:197-221: the source holds at least one job. getJobsThrows,
\* faulty and failAt say which store calls throw.
Reconcile(currentConfig, getJobsThrows, faulty, failAt) ==
  LET configJobs   == currentConfig.jobs
      existingJobs == ExistingJobs(store)
      configJobIds == ConfigJobIds(configJobs)
      synced       == SyncJobs(1, currentConfig, store, faulty)
      jobsToRemove == JobsToRemove(existingJobs, configJobIds)
      removed      == RemoveJobs(jobsToRemove, 1, synced.store, failAt)
      threw        == faulty \cap UpsertPositions(currentConfig)
      did          == [upsertCalls |-> synced.upsertCalls,
                       removeCalls |-> removed.removeCalls,
                       synced |-> synced.synced, skipped |-> synced.skipped,
                       threw |-> threw]
  IN  IF getJobsThrows
        THEN SyncEnds("failed", "getJobs", TRUE, store, DidNothing) /\ UNCHANGED lastSyncTime
      ELSE IF removed.threw
        THEN SyncEnds("failed", "removeJob", TRUE, removed.store, did)
             /\ UNCHANGED lastSyncTime
      ELSE /\ SyncEnds("completed", "", TRUE, removed.store, did)
           /\ lastSyncTime' \in DateNow(lastSyncTime)

\* configJobSync.js:183: readConfigFromStorage() has read config.json; the
\* sync, suspended at its await, has not resumed yet
ConfigRead ==
  /\ spc = "reading"
  /\ readConfig = <<>>
  /\ readConfig' = <<[source |-> file, quietBefore |-> quiet]>>
  /\ quiet' = TRUE
  /\ UNCHANGED <<file, store, syncUser, syncInProgress, spc, lastSyncTime, report>>
  /\ UNCHANGED <<orchestratorVars, watchVars, routerVars, pureVars>>

\* what the sync resumes with: the content read earlier, or the content the
\* file has when the read and the resumption come together
SourceRead == IF readConfig = <<>> THEN file ELSE readConfig[1].source

\* configJobSync.js:183-229: readConfigFromStorage() settles and the sync
\* runs to its end
SyncBody ==
  /\ spc = "reading"
  /\ \/ \* the read rejects
        SyncEnds("failed", "readConfigFromStorage", FALSE, store, DidNothing)
        /\ UNCHANGED lastSyncTime
     \/ LET currentConfig == replaceEnvPlaceholdersSimple(SourceRead)
        IN  IF Len(currentConfig.jobs) = 0
              THEN SyncEnds("empty", "", TRUE, store, DidNothing) /\ UNCHANGED lastSyncTime
              ELSE \/ Reconcile(currentConfig, TRUE, {}, 0)
                   \/ \E faulty \in SUBSET UpsertPositions(currentConfig),
                         failAt \in 0..Len(ExistingJobs(store)) :
                        Reconcile(currentConfig, FALSE, faulty, failAt)
  /\ UNCHANGED <<file, syncUser>>
  /\ UNCHANGED <<orchestratorVars, watchVars, routerVars, pureVars>>

\* an edit of config.json: a job is appended, the last job is deleted, or the
\* global adapters are added or deleted
EditOf(old, new) ==
  \/ new.jobs = old.jobs /\ new.adapters # old.adapters
  \/ new.adapters = old.adapters /\ Len(new.jobs) = Len(old.jobs) + 1
     /\ SubSeq(new.jobs, 1, Len(old.jobs)) = old.jobs
  \/ new.adapters = old.adapters /\ Len(old.jobs) = Len(new.jobs) + 1
     /\ SubSeq(old.jobs, 1, Len(new.jobs)) = new.jobs

\* config.json is edited
FileChange ==
  /\ \E f \in Sources :
       /\ EditOf(file, f)
       /\ file' = f
  /\ quiet' = FALSE
  /\ UNCHANGED <<store, syncUser, syncInProgress, spc, lastSyncTime, report, readConfig>>
  /\ UNCHANGED <<orchestratorVars, watchVars, routerVars, pureVars>>

\* ------------------------------------------------------- config file watcher
\* configJobSync.js:262: the quiet period of the debounce timer, in ms
DebounceMs == 2000

\* the lengths of time, in ms, that pass between two steps of the watcher
Delays == {200, 1800}

\* the arguments fs.watch hands to its listener
EventTypes == {"change", "rename"}

\* the listener arms a timer only when none is pending: a pending timer is
\* left to run
ArmTimerKeepPending(timer) == IF timer # <<>> THEN timer ELSE <<DebounceMs>>

\* configJobSync.js:252-262: the pending timer is cleared and a new one is set
ArmTimer(timer) == <<DebounceMs>>

\* configJobSync.js:235-271: the watcher is set unless it is already, the file
\* does not exist, or fs.watch throws
startConfigFileWatcher == fileWatcher' \in (IF fileWatcher THEN {TRUE} ELSE BOOLEAN)

\* configJobSync.js:287-290: initConfigJobSync up to its await. A sync dropped
\* by the in-progress guard has already returned.
initConfigJobSync ==
  /\ initPc = "none"
  /\ syncConfigJobsToDatabase
  /\ IF syncInProgress
       THEN initPc' = "done" /\ startConfigFileWatcher
       ELSE initPc' = "syncing" /\ UNCHANGED fileWatcher
  /\ UNCHANGED <<debounceTimer, burstEvents, burstCalls, sinceChange>>
  /\ UNCHANGED <<orchestratorVars, routerVars, pureVars>>

\* configJobSync.js:290-293: the awaited sync has ended, however it ended
InitResumes ==
  /\ InitResumePending
  /\ initPc' = "done"
  /\ startConfigFileWatcher
  /\ UNCHANGED <<debounceTimer, burstEvents, burstCalls, sinceChange>>
  /\ UNCHANGED <<orchestratorVars, syncVars, routerVars, pureVars>>

\* configJobSync.js:250-264: the listener of fs.watch. A timer that is due
\* fires before an event that arrives later is delivered.
WatchEvent(eventType, hasFilename) ==
  /\ fileWatcher
  /\ debounceTimer # <<0>>
  /\ IF eventType = "change" /\ hasFilename
       THEN /\ debounceTimer = <<>> \/ burstEvents < MaxBurst
            /\ debounceTimer' = ArmTimer(debounceTimer)
            /\ sinceChange' = 0
            /\ burstEvents' = IF debounceTimer = <<>> THEN 1 ELSE burstEvents + 1
            /\ burstCalls' = IF debounceTimer = <<>> THEN 0 ELSE burstCalls
       ELSE UNCHANGED <<debounceTimer, sinceChange, burstEvents, burstCalls>>
  /\ UNCHANGED <<initPc, fileWatcher>>
  /\ UNCHANGED <<orchestratorVars, syncVars, routerVars, pureVars>>

\* d ms pass while the timer is pending, or the time left until it is due
Elapse(d) ==
  /\ debounceTimer # <<>>
  /\ debounceTimer[1] > 0
  /\ LET passed == IF debounceTimer[1] > d THEN d ELSE debounceTimer[1]
     IN  /\ debounceTimer' = <<debounceTimer[1] - passed>>
         /\ sinceChange' = sinceChange + passed
  /\ UNCHANGED <<initPc, fileWatcher, burstEvents, burstCalls>>
  /\ UNCHANGED <<orchestratorVars, syncVars, routerVars, pureVars>>

\* configJobSync.js:257-262: the timer's callback
DebounceFire ==
  /\ debounceTimer = <<0>>
  /\ debounceTimer' = <<>>
  /\ burstCalls' = burstCalls + 1
  /\ syncConfigJobsToDatabase
  /\ UNCHANGED <<initPc, fileWatcher, burstEvents, sinceChange>>
  /\ UNCHANGED <<orchestratorVars, routerVars, pureVars>>

\* config.json is edited while the watcher runs and fs.watch hands the change
\* to the listener (configJobSync.js:250-262); the file keeps at least one job
ConfigEdited ==
  /\ fileWatcher
  /\ debounceTimer # <<0>>
  /\ debounceTimer = <<>> \/ burstEvents < MaxBurst
  /\ \E f \in Sources :
       /\ EditOf(file, f)
       /\ Len(f.jobs) > 0
       /\ file' = f
  /\ quiet' = FALSE
  /\ debounceTimer' = ArmTimer(debounceTimer)
  /\ sinceChange' = 0
  /\ burstEvents' = IF debounceTimer = <<>> THEN 1 ELSE burstEvents + 1
  /\ burstCalls' = IF debounceTimer = <<>> THEN 0 ELSE burstCalls
  /\ UNCHANGED <<store, syncUser, syncInProgress, spc, lastSyncTime, report, readConfig>>
  /\ UNCHANGED <<initPc, fileWatcher>>
  /\ UNCHANGED <<orchestratorVars, routerVars, pureVars>>

\* configJobSync.js:276-282, 316-318: cleanup() closes the watcher; the timer
\* of the listener's closure is not cleared
cleanup ==
  /\ fileWatcher' = FALSE
  /\ UNCHANGED <<initPc, debounceTimer, burstEvents, burstCalls, sinceChange>>
  /\ UNCHANGED <<orchestratorVars, syncVars, routerVars, pureVars>>

\* -------------------------------------------------------- external job API
\* part_001:165, 192: the owner the external API gives the jobs it creates
EXTERNAL_API_USER_ID == "external_api"

\* part_001:184-191: the adapter every job of the external API gets
AdPlaceholders ==
  Adapter("", "", "", "telegram",
          <<AdapterFields("${BOT_TOKEN}", "${RAW_FEED_CHANNEL_ID}")>>, <<>>)

\* the body of a request. id is "" when missing; valid: name and providers
\* are there and providers is an array; enabled and user_ids are <<>>
\* (undefined) or <<value>>
Bodies ==
  [id : JobIds \cup {""}, valid : BOOLEAN,
   enabled : {<<>>, <<TRUE>>, <<FALSE>>},
   user_ids : {<<>>, <<(<<"u1">>)>>}]

\* the call of a handler that throws: none, a call to the user store, the
\* read of the job, the write of the job
Faults == {"", "user", "read", "write"}

\* jobStorage.getJob(id): <<>> or <<row>>
getJob(st, id) == st[id]

\* the rest of a handler, common to all: the response is sent and nothing of
\* the orchestrator, the reconciler or the watcher is touched
Responds(status) ==
  /\ response' = status
  /\ UNCHANGED <<file, syncUser, syncInProgress, spc, lastSyncTime, report, quiet,
                 readConfig>>
  /\ UNCHANGED <<orchestratorVars, watchVars, pureVars>>

\* part_001:148-236: POST /jobs. The job is written with owner
\* 'external_api' whether or not a job with this id exists.
PostJob(body, fault) ==
  IF body.id = "" \/ ~body.valid
    THEN Responds(400) /\ UNCHANGED <<store, apiUser>>
  ELSE IF fault = "user"
    THEN Responds(500) /\ UNCHANGED <<store, apiUser>>
  ELSE /\ apiUser' = TRUE
       /\ IF fault \in {"read", "write"}
            THEN Responds(500) /\ UNCHANGED store
            ELSE /\ store' = upsertJob(store, body.id,
                                       [userId |-> EXTERNAL_API_USER_ID,
                                        name |-> "n",
                                        enabled |-> IF body.enabled # <<>>
                                                      THEN body.enabled[1] ELSE TRUE,
                                        provider |-> <<"p1">>,
                                        notificationAdapter |-> <<AdPlaceholders>>,
                                        shareWithUsers |-> IF body.user_ids # <<>>
                                                             THEN body.user_ids[1] ELSE <<>>,
                                        blacklist |-> <<>>])
                 /\ Responds(IF getJob(store, body.id) # <<>> THEN 200 ELSE 201)

\* part_001:241-279: PATCH /jobs/:id. The job is written back with its own
\* owner and the enabled flag and shared users of the request.
PatchJob(id, body, fault) ==
  IF fault \in {"user", "read"}
    THEN Responds(500) /\ UNCHANGED <<store, apiUser>>
  ELSE IF getJob(store, id) = <<>>
    THEN Responds(404) /\ UNCHANGED <<store, apiUser>>
  ELSE IF fault = "write"
    THEN Responds(500) /\ UNCHANGED <<store, apiUser>>
  ELSE LET existingJob == getJob(store, id)[1]
       IN  /\ store' = upsertJob(store, id,
                                 [userId |-> existingJob.userId,
                                  name |-> existingJob.name,
                                  enabled |-> IF body.enabled # <<>>
                                                THEN body.enabled[1] ELSE existingJob.enabled,
                                  provider |-> existingJob.provider,
                                  notificationAdapter |-> existingJob.notificationAdapter,
                                  shareWithUsers |-> IF body.user_ids # <<>>
                                                       THEN body.user_ids[1]
                                                       ELSE existingJob.shareWithUsers,
                                  blacklist |-> <<>>])
           /\ Responds(200)
           /\ UNCHANGED apiUser

\* part_001:284-314: DELETE /jobs/:id. The job is removed, whoever owns it.
DeleteJob(id, fault) ==
  IF fault \in {"user", "read"}
    THEN Responds(500) /\ UNCHANGED <<store, apiUser>>
  ELSE IF getJob(store, id) = <<>>
    THEN Responds(404) /\ UNCHANGED <<store, apiUser>>
  ELSE IF fault = "write"
    THEN Responds(500) /\ UNCHANGED <<store, apiUser>>
  ELSE /\ store' = removeJob(store, id)
       /\ Responds(200)
       /\ UNCHANGED apiUser

\* --------------------------------------------------------- specifications
InitOrchestrator ==
  /\ maxParallel = 1
  /\ nextTask = 1
  /\ executing = {}
  /\ pstate = <<>>
  /\ startCount = <<>>
  /\ rpc = "idle"
  /\ awaited = {}
  /\ raceWinner = 0
  /\ unhandled = {}
  /\ errLog = {}
  /\ booted = FALSE
  /\ executionInFlight = FALSE
  /\ activeCycles = 0
  /\ lastRun = 0
  /\ lastCall = "none"
  /\ cycleExit = "none"
  /\ policy = [demoMode |-> FALSE, duringWorkingHours |-> TRUE]
  /\ cycleRead = FALSE
  /\ activeConfig = [p \in providerMap |-> <<>>]
  /\ initCalls = <<>>

\* no sync was attempted yet
InitReconciler ==
  /\ syncInProgress = FALSE
  /\ spc = "idle"
  /\ lastSyncTime = 0
  /\ report = NoReport
  /\ quiet = FALSE
  /\ readConfig = <<>>

\* initConfigJobSync was not called yet: no watcher, no timer
InitWatcher ==
  /\ initPc = "none"
  /\ fileWatcher = FALSE
  /\ debounceTimer = <<>>
  /\ burstEvents = 0
  /\ burstCalls = 0
  /\ sinceChange = 0

\* no request was served, the user 'external_api' does not exist yet
InitRouter ==
  /\ apiUser = FALSE
  /\ response = 0

\* no pure function is under test
InitPure ==
  /\ input = <<>>
  /\ output = <<>>

\* an empty source and an empty store
InitCommon ==
  /\ InitOrchestrator
  /\ InitReconciler
  /\ InitWatcher
  /\ InitRouter
  /\ InitPure
  /\ file = [jobs |-> <<>>, adapters |-> <<>>]
  /\ store = [id \in JobIds |-> <<>>]
  /\ syncUser = FALSE

\* the process before the startup block's first trigger
InitExec ==
  /\ InitCommon
  /\ caller = "none"
  /\ tasks = <<>>
  /\ limit \in ResolvedLimits

\* a direct call of runWithConcurrency(tasks, limit)
InitRunner ==
  /\ InitCommon
  /\ caller = "direct"
  /\ tasks \in DirectTaskLists
  /\ limit \in Limits

\* the reconciler before its first sync, for every source and every store
InitSync ==
  /\ InitOrchestrator
  /\ InitReconciler
  /\ InitWatcher
  /\ InitRouter
  /\ InitPure
  /\ caller = "none"
  /\ tasks = <<>>
  /\ limit = <<>>
  /\ file \in Sources
  /\ store \in InitialStores
  /\ syncUser \in BOOLEAN

RunnerStep ==
  \/ \E i \in 1..Len(tasks) : TaskStart(i)
  \/ \E i \in 1..Len(tasks) : TaskSettle(i)
  \/ \E i \in 1..Len(tasks) : FinallyDelete(i)
  \/ RaceResume
  \/ AllSettledResume

NextRunner == DirectCall \/ RunnerStep

NextExec == Startup \/ TimerTick \/ RunAllEvent \/ RunnerStep

SpecRunner == InitRunner /\ [][NextRunner]_vars

SpecExec == InitExec /\ [][NextExec]_vars

SpecBoth == (InitRunner \/ InitExec) /\ [][NextRunner \/ NextExec]_vars

\* The event loop runs a microtask that is due (a start job, a finally
\* callback, a resumption of the runner), and every task that was dispatched
\* settles in the end.
RunnerFairness == WF_vars(RunnerStep)

\* the runner called directly and through execute(), with the event loop
\* making progress
SpecLive == (InitRunner \/ InitExec) /\ [][NextRunner \/ NextExec]_vars /\ RunnerFairness

\* everything but the function under test is at rest
InitRest ==
  /\ InitOrchestrator
  /\ InitReconciler
  /\ InitWatcher
  /\ InitRouter
  /\ caller = "none"
  /\ tasks = <<>>
  /\ limit = <<>>
  /\ file = [jobs |-> <<>>, adapters |-> <<>>]
  /\ store = [id \in JobIds |-> <<>>]
  /\ syncUser = FALSE

\* the planner before it is applied to a job list
InitPlan ==
  /\ InitRest
  /\ input \in {<<jobs>> : jobs \in PlanJobLists}
  /\ output = <<>>

SpecPlan == InitPlan /\ [][PlanApplied]_vars

\* convertNotificationAdapter before it is applied to an adapter
InitConvert ==
  /\ InitRest
  /\ input \in {<<adapter>> : adapter \in AdapterInputs}
  /\ output = <<>>

SpecConvert == InitConvert /\ [][ConvertApplied]_vars

\* syncJobToDatabase before it is applied to a declarative job
InitSyncJob ==
  /\ InitRest
  /\ input \in {<<i>> : i \in SyncJobInputs}
  /\ output = <<>>

SpecSyncJob == InitSyncJob /\ [][SyncJobApplied]_vars

\* the watcher over one source and an empty store
InitWatch ==
  /\ InitOrchestrator
  /\ InitReconciler
  /\ InitWatcher
  /\ InitRouter
  /\ InitPure
  /\ caller = "none"
  /\ tasks = <<>>
  /\ limit = <<>>
  /\ file \in {src \in Sources : Len(src.jobs) = 1 /\ src.adapters # <<>>}
  /\ store = [id \in JobIds |-> <<>>]
  /\ syncUser = FALSE

NextWatch ==
  \/ initConfigJobSync
  \/ InitResumes
  \/ \E eventType \in EventTypes, hasFilename \in BOOLEAN : WatchEvent(eventType, hasFilename)
  \/ \E d \in Delays : Elapse(d)
  \/ DebounceFire
  \/ cleanup
  \/ triggerSync
  \/ SyncRefreshed
  \/ SyncBody

SpecWatch == InitWatch /\ [][NextWatch]_vars

\* no call of the sync to the user store, the file or the job store throws
NoFault == report.outcome # "failed" /\ report.threw = {}

\* the watcher and the sync while config.json is edited and no collaborator
\* throws; the sync is called by initConfigJobSync and by the timer alone
NextResync ==
  /\ \/ initConfigJobSync
     \/ InitResumes
     \/ ConfigEdited
     \/ \E d \in Delays : Elapse(d)
     \/ DebounceFire
     \/ SyncRefreshed
     \/ ConfigRead
     \/ SyncBody
  /\ NoFault'

SpecResync == InitWatch /\ [][NextResync]_vars

\* the external job API over every store the process can start with
InitApi ==
  /\ InitOrchestrator
  /\ InitReconciler
  /\ InitWatcher
  /\ InitRouter
  /\ InitPure
  /\ caller = "none"
  /\ tasks = <<>>
  /\ limit = <<>>
  /\ file = [jobs |-> <<>>, adapters |-> <<>>]
  /\ store \in InitialStores
  /\ syncUser = TRUE

NextApi ==
  \E body \in Bodies, fault \in Faults :
    \/ PostJob(body, fault)
    \/ \E id \in JobIds : PatchJob(id, body, fault)
    \/ \E id \in JobIds : DeleteJob(id, fault)

SpecApi == InitApi /\ [][NextApi]_vars

NextSync == triggerSync \/ SyncRefreshed \/ SyncBody \/ FileChange

SpecSync == InitSync /\ [][NextSync]_vars

\* ================================================================= claims
Running == {i \in DOMAIN pstate : pstate[i] \in {"running", "caught"}}

AllTasksSettled == \A i \in DOMAIN pstate : Settled(i)

\* the limit the caller asked for, 1 when it is missing or below 1
RequestedLimit == IF limit = <<>> THEN 1 ELSE IF limit[1] < 1 THEN 1 ELSE limit[1]

\* C1: at every instant of runWithConcurrency(T, L) the number of tasks that
\* have been started and have not yet settled is at most the effective limit.
C1_AtMostLimitRunning == Cardinality(Running) <= RequestedLimit

\* C1 witness: three tasks under limit 2, two of them running at once
C1_Witness ==
  /\ caller = "direct" /\ Len(tasks) = 3 /\ limit = <<2>>
  /\ Cardinality(Running) = 2

\* C2: when runWithConcurrency returns, every task has been started exactly
\* once and has settled; none is still running or was never started.
C2_ReturnsAfterAllSettled ==
  rpc = "returned" =>
    \A i \in 1..Len(tasks) : startCount[i] = 1 /\ Settled(i)

\* C2 witness: the runner returned from a list of three tasks
C2_Witness ==
  /\ caller = "direct" /\ rpc = "returned" /\ Len(tasks) = 3
  /\ \E i \in 1..3 : pstate[i] = "rejected"
  /\ \E i \in 1..3 : pstate[i] = "fulfilled"

\* C3: when some tasks fail (init or the pipeline throws inside the closure,
\* or a task itself rejects), the runner never rejects, every task of the list
\* is still started and settled when it returns, a closure's failure stays
\* inside the closure, and no cycle of execute() ends by a throw of the runner.
C3_FailuresAreContained ==
  /\ rpc # "rejected"
  /\ cycleExit # "runnerThrew"
  /\ \A i \in DOMAIN pstate :
       tasks[i].guarded => (pstate[i] # "rejected" /\ i \notin unhandled)
  /\ rpc = "returned" =>
       \A i \in 1..Len(tasks) : startCount[i] = 1 /\ Settled(i)

\* C3 witness: the runner returned although one task rejected and one closure
\* caught a failure, a third task having succeeded
C3_Witness ==
  /\ rpc = "returned" /\ Len(tasks) = 3
  /\ \E i \in 1..3 : pstate[i] = "rejected"
  /\ \E i \in 1..3 : tasks[i].guarded /\ i \in errLog /\ pstate[i] = "fulfilled"
  /\ \E i \in 1..3 : pstate[i] = "fulfilled" /\ i \notin errLog

\* what a dropped call must leave alone: the flag, the cycle and its tasks
CycleVars == <<runnerVars, executionInFlight, activeCycles, lastRun, cycleExit>>

\* C4: at most one cycle is in flight, and a trigger (timer or 'jobs:runAll')
\* that finds executionInFlight set plans nothing, runs nothing and leaves the
\* flag and the running cycle unchanged.
C4_SingleFlight ==
  /\ [](activeCycles <= 1)
  /\ [][(executionInFlight /\ (TimerTick \/ RunAllEvent))
          => (lastCall' = "dropped" /\ UNCHANGED CycleVars)]_vars

\* C4 witness: a trigger was dropped while a task of the cycle is running
C4_Witness ==
  /\ executionInFlight /\ lastCall = "dropped"
  /\ Running # {}

CycleEnded == cycleExit \in {"demo", "hours", "noTasks", "ran", "readThrew", "runnerThrew"}

\* C5: whenever an accepted cycle has ended, on any exit path, the gate is
\* idle again: executionInFlight is false and no activation is left.
C5_IdleAfterEveryExit ==
  CycleEnded => (~executionInFlight /\ activeCycles = 0)

\* C5 witness: a cycle ended by an exception while reading the jobs
C5_Witness == cycleExit = "readThrew" /\ ~executionInFlight /\ lastRun # 0

\* C6: cycles are serialized: the gate is idle only when every task the
\* cycle dispatched has settled, and a cycle starts only then.
C6_CyclesSerialized ==
  /\ [](~executionInFlight => AllTasksSettled)
  /\ [][activeCycles' > activeCycles => AllTasksSettled]_vars

\* C6 witness: a cycle of two tasks ran to its end and the gate is idle
C6_Witness ==
  /\ cycleExit = "ran" /\ ~executionInFlight
  /\ Len(tasks) = 2 /\ AllTasksSettled

\* C14: with a limit of 1, or a limit that is missing or below 1, the runner
\* runs the tasks one at a time in the order of the list: a task is started
\* only when the task before it has settled. With an empty list it returns
\* at once and starts nothing.
C14_OneAtATimeInOrder ==
  /\ (rpc # "idle" /\ RequestedLimit = 1 /\ tasks # <<>>) =>
       /\ maxParallel = 1
       /\ \A i \in DOMAIN startCount :
            (i > 1 /\ startCount[i] >= 1) => Settled(i - 1)
  /\ (rpc # "idle" /\ tasks = <<>>) =>
       /\ rpc = "returned"
       /\ pstate = <<>>
       /\ startCount = <<>>

\* called with a limit below 1, the runner has started the second task of its
\* list while the third is not yet submitted
C14_Witness ==
  /\ limit # <<>>
  /\ limit[1] < 1
  /\ Len(pstate) = MaxDirect
  /\ pstate[2] = "running"
  /\ pstate[MaxDirect] = "none"

\* ------------------------------------------------------ claims on the sync
Present(id) == store[id] # <<>>

Owned(id) == Present(id) /\ store[id][1].userId = CONFIG_SYNC_USER_ID

Foreign(id) == Present(id) /\ store[id][1].userId # CONFIG_SYNC_USER_ID

\* the identifiers the source declares
DeclaredIds == {file.jobs[k].id : k \in 1..Len(file.jobs)}

\* the latest sync attempt read the source, ended without a top-level
\* failure, and the source was not edited since
SyncedWithSource ==
  /\ spc = "idle"
  /\ quiet
  /\ report.outcome \in {"completed", "empty"}

\* C7: no step of the sync removes a store job whose owner is not
\* 'config_sync', whatever the source holds and whether or not the source
\* holds the job's identifier.
C7_ForeignJobsAreNeverRemoved ==
  [][\A id \in JobIds : Foreign(id) => store'[id] # <<>>]_vars

\* a sync that removed a job has ended while a job of another owner, whose
\* identifier the source does not hold, is still in the store
C7_Witness ==
  /\ SyncedWithSource
  /\ report.removeCalls >= 1
  /\ \E id \in JobIds : Foreign(id) /\ id \notin DeclaredIds

\* C8: after a sync that ended without a top-level failure, every store job
\* owned by 'config_sync' has an identifier the source holds; so when the
\* source holds no job, the store holds no job of that owner.
C8_NoOwnedJobAbsentFromSource ==
  SyncedWithSource => \A id \in JobIds : Owned(id) => id \in DeclaredIds

\* C9: the second of two consecutive syncs that read the same source, with no
\* store or file operation failing in either, leaves the job store as the
\* first one left it.
C9_SecondSyncChangesNothing ==
  (report.repeat /\ report.clean) => ~report.storeChanged

\* a second clean sync of an unchanged source has ended: it called upsertJob
\* and the store holds a job of the reconciler
C9_Witness ==
  /\ spc = "idle"
  /\ report.repeat
  /\ report.clean
  /\ report.upsertCalls >= 1
  /\ \E id \in JobIds : Owned(id)

\* C10: the second of two consecutive syncs that read the same source calls
\* upsertJob zero times and removeJob zero times.
C10_SecondSyncCallsNothing ==
  (report.repeat /\ report.clean) => (report.upsertCalls = 0 /\ report.removeCalls = 0)

\* --------------------------------------------------- claims on the watcher
\* C11: the watcher calls the sync only from its timer, when the quiet period
\* has passed since the latest change event: while the timer of a burst of
\* change events is pending no call was made for the burst, and once it is no
\* longer pending exactly one call was made, DebounceMs after the last event.
C11_OneSyncPerBurst ==
  /\ [](debounceTimer # <<>> => burstCalls = 0)
  /\ []((debounceTimer = <<>> /\ burstEvents >= 1) => burstCalls = 1)
  /\ [][burstCalls' > burstCalls => (burstCalls' = 1 /\ sinceChange = DebounceMs)]_vars

\* a burst of MaxBurst change events, each less than the quiet period after
\* the one before, has ended with its one call
C11_Witness ==
  /\ burstEvents = MaxBurst
  /\ burstCalls = 1
  /\ debounceTimer = <<>>
  /\ sinceChange = DebounceMs

\* --------------------------------------------------- claims on the planner
\* the (job, binding) positions of the input that are to yield a task
PlannedPairs(jobs) ==
  {p \in UNION {{<<n, k>> : k \in 1..Len(jobs[n].provider)} : n \in 1..Len(jobs)} :
     /\ jobs[p[1]].enabled
     /\ jobs[p[1]].provider[p[2]] \in providerMap}

\* job-then-binding order
PairBefore(p, q) == p[1] < q[1] \/ (p[1] = q[1] /\ p[2] < q[2])

\* C12: the task list planned from a job list holds exactly one task per
\* (job, binding) of an enabled job whose provider id is in the registry, in
\* job-then-binding order; the other bindings yield no task and take no task
\* away from the bindings after them.
C12_OneTaskPerResolvableBinding ==
  output # <<>> =>
    LET jobs  == input[1]
        out   == output[1]
        pairs == PlannedPairs(jobs)
    IN  /\ Len(out) = Cardinality(pairs)
        /\ \A p \in pairs :
             out[Cardinality({q \in pairs : PairBefore(q, p)}) + 1]
               = [job |-> jobs[p[1]].id, prov |-> jobs[p[1]].provider[p[2]], guarded |-> TRUE]

\* a disabled job, then a job whose first binding does not resolve and whose
\* second does, were planned: one task
C12_Witness ==
  /\ output # <<>>
  /\ Len(input[1]) = 2
  /\ ~input[1][1].enabled /\ Len(input[1][1].provider) > 0
  /\ input[1][2].enabled /\ Len(input[1][2].provider) = 2
  /\ input[1][2].provider[1] \notin providerMap
  /\ input[1][2].provider[2] \in providerMap
  /\ Len(output[1]) = 1

\* ------------------------------------------- claims on adapter normalization
\* the global adapter format: type, botToken and chatId are all there
LegacyShape(adapter) == adapter.type # "" /\ adapter.botToken # "" /\ adapter.chatId # ""

\* C13: convertNotificationAdapter maps {type, botToken, chatId} to
\* {id: type, fields: {token: botToken, chatId}}; an adapter not of that shape
\* with an id and fields is returned unchanged, one with an id and args but no
\* fields becomes {id, fields: args}; one with neither type nor id is dropped.
C13_AdapterShapes ==
  output # <<>> =>
    LET adapter == input[1]
        result  == output[1]
    IN  /\ LegacyShape(adapter) =>
             result = <<[type |-> "", botToken |-> "", chatId |-> "", id |-> adapter.type,
                         fields |-> <<[token |-> adapter.botToken, chatId |-> adapter.chatId]>>,
                         args |-> <<>>]>>
        /\ (~LegacyShape(adapter) /\ adapter.id # "" /\ adapter.fields # <<>>) =>
             result = <<adapter>>
        /\ (~LegacyShape(adapter) /\ adapter.id # "" /\ adapter.fields = <<>>
              /\ adapter.args # <<>>) =>
             result = <<[type |-> "", botToken |-> "", chatId |-> "", id |-> adapter.id,
                         fields |-> adapter.args, args |-> <<>>]>>
        /\ (adapter.type = "" /\ adapter.id = "") => result = <<>>

\* {type: "telegram", botToken: "T", chatId: "C"} was converted to the DB
\* format
C13_Witness ==
  /\ input = <<AdLegacy>>
  /\ output = <<(<<Adapter("", "", "", "telegram", <<AdapterFields("T", "C")>>, <<>>)>>)>>

\* ------------------------------------------- claims on the sync's failures
\* an adapter that normalization keeps
Usable(adapter) == LegacyShape(adapter) \/ adapter.id # ""

\* the job has an adapter of its own that is kept, or the source has a global one
HasAdapters(jobConfig, source) ==
  \/ /\ jobConfig.notificationAdapter # <<>>
     /\ \E n \in 1..Len(jobConfig.notificationAdapter[1]) :
          Usable(jobConfig.notificationAdapter[1][n])
  \/ \E n \in 1..Len(source.adapters) : Usable(source.adapters[n])

\* this step is a sync that read a source with jobs and went through its loop
\* over them
SyncLoopStep ==
  /\ spc = "reading"
  /\ spc' = "idle"
  /\ Len(file.jobs) > 0
  /\ report'.failedAt \in {"", "removeJob"}

\* C15: a declarative job without an id, or left with no adapter after the
\* fallback to the global ones, or whose upsertJob throws, leaves the store's
\* row of its id as it was and is counted as skipped; every other job of the
\* same sync is written, owned by 'config_sync', and counted as synced.
C15_SkippedJobsAreNotWritten ==
  [][SyncLoopStep =>
       LET jobs    == file.jobs
           skipped == {k \in 1..Len(jobs) :
                         \/ jobs[k].id = ""
                         \/ ~HasAdapters(jobs[k], file)
                         \/ k \in report'.threw}
       IN  /\ \A k \in skipped : jobs[k].id \in JobIds => store'[jobs[k].id] = store[jobs[k].id]
           /\ report'.skipped = Cardinality(skipped)
           /\ report'.synced = Len(jobs) - Cardinality(skipped)
           /\ \A k \in (1..Len(jobs)) \ skipped :
                /\ store'[jobs[k].id] # <<>>
                /\ store'[jobs[k].id][1].userId = CONFIG_SYNC_USER_ID
                /\ store'[jobs[k].id][1].notificationAdapter # <<>>]_vars

\* a sync of a source with a job that is skipped and a job that is written
\* has completed
C15_Witness ==
  /\ spc = "idle"
  /\ report.outcome = "completed"
  /\ report.skipped >= 1
  /\ report.synced >= 1
  /\ report.storeChanged

\* C17: a sync attempt that fails before its loop over the declarative jobs
\* (ensuring the user, refreshing or reading the source, listing the store)
\* leaves the job store as it was, with no upsertJob and no removeJob call;
\* its promise is fulfilled and syncInProgress is false.
C17_EarlyFailureLeavesStore ==
  [][((report' # report \/ spc # spc') /\ spc' = "idle"
        /\ report'.outcome = "failed" /\ report'.failedAt # "removeJob") =>
       /\ store' = store
       /\ report'.upsertCalls = 0
       /\ report'.removeCalls = 0
       /\ report'.promise = "fulfilled"
       /\ ~syncInProgress'
       /\ spc' = "idle"]_vars

\* the listing of the store threw in a sync of a source with a job that would
\* have been written
C17_Witness ==
  /\ spc = "idle"
  /\ report.outcome = "failed"
  /\ report.failedAt = "getJobs"
  /\ \E k \in 1..Len(file.jobs) : file.jobs[k].id \in JobIds /\ HasAdapters(file.jobs[k], file)
  /\ quiet

\* ------------------------------------- claims on the gates and the providers
\* a call of execute(), whatever triggered it
Trigger == Startup \/ TimerTick \/ RunAllEvent

\* the policy the accepted call found when it tested its gates
GateClosed(p) == p.demoMode \/ ~p.duringWorkingHours

\* C16: when demo mode is active, or the time is outside the configured working
\* hours, an accepted cycle plans no task, runs no task and does not read the
\* job store; it ends at once and the gate is idle again.
C16_SkippedCycleTouchesNothing ==
  [][(Trigger /\ lastCall' = "accepted" /\ GateClosed(policy'))
       => /\ UNCHANGED <<runnerVars, provVars>>
          /\ ~cycleRead'
          /\ cycleExit' \in {"demo", "hours"}
          /\ ~executionInFlight' /\ activeCycles' = 0]_vars

\* C16 witness: after a cycle that ran two tasks, a cycle outside the working
\* hours ended without reading the store, the tasks of the old cycle untouched
C16_Witness ==
  /\ lastCall = "accepted" /\ cycleExit = "hours"
  /\ ~policy.demoMode /\ ~policy.duringWorkingHours
  /\ ~cycleRead /\ ~executionInFlight
  /\ Len(tasks) = 2 /\ AllTasksSettled

\* the config of the provider module is the one init wrote for task i
HoldsOwnConfig(i) ==
  activeConfig[tasks[i].prov] = <<BindingConfig(tasks[i].prov, tasks[i].job)>>

\* C18: while its pipeline executes, each task of a cycle uses the provider
\* configuration and blacklist of its own (job, binding) pair, also when two
\* tasks of the same provider module are in flight together under a limit of
\* 2 or more.
C18_TaskUsesItsOwnConfig ==
  \A i \in DOMAIN pstate :
    (caller = "execute" /\ pstate[i] = "running") => HoldsOwnConfig(i)

\* the tasks of a cycle are with the runner
HandedToRunner == caller = "execute" /\ cycleExit = "running"

\* C19 as the specification states it: init of every binding is invoked during
\* planning, before any task of the cycle is handed to the runner, and a
\* binding whose init throws yields no task.
C19_InitDuringPlanning ==
  HandedToRunner =>
    \A i \in DOMAIN tasks : initCalls[i] >= 1 /\ pstate[i] # "caught"

\* C19: init of a binding is invoked inside the binding's task, when the
\* runner starts it and not before; an init that throws is caught inside the
\* task: the error is logged, the pipeline of the binding is not run and the
\* task's promise fulfils.
C19_InitWhenTheTaskStarts ==
  /\ [](caller = "execute" =>
          \A i \in DOMAIN tasks :
            /\ initCalls[i] = startCount[i]
            /\ pstate[i] \in {"none", "queued"} => initCalls[i] = 0
            /\ pstate[i] = "caught" => i \in errLog)
  /\ [][caller = "execute" /\ caller' = "execute" /\ tasks' = tasks =>
          \A i \in DOMAIN tasks :
            /\ (pstate[i] = "queued" /\ i \in errLog') => pstate'[i] = "caught"
            /\ pstate[i] = "caught" => pstate'[i] \in {"caught", "fulfilled"}]_vars

\* C19 witness: of two tasks handed to the runner, the init of the first
\* threw and the pipeline of the second is running
C19_Witness ==
  /\ HandedToRunner /\ Len(tasks) = 2
  /\ pstate[1] = "caught" /\ pstate[2] = "running"
  /\ initCalls = <<1, 1>> /\ errLog = {1}

\* C20 as the specification states it: every execute() call the single-flight
\* guard accepted has recorded its start time in config.lastRun.
C20_EveryAcceptedCycleStamps ==
  lastCall = "accepted" => lastRun >= 1

\* C20: an accepted cycle records its start time in config.lastRun when it
\* has passed both policy gates, before it reads the job store; a cycle that
\* demo mode or the working hours skip leaves config.lastRun as it was.
C20_StampedAfterTheGates ==
  [][(Trigger /\ lastCall' = "accepted") =>
       IF GateClosed(policy')
         THEN lastRun' = lastRun /\ ~cycleRead'
         ELSE lastRun' \in DateNow(lastRun) /\ cycleRead']_vars

\* C20 witness: a cycle stamped time 1 and ran its task; the next cycle was
\* skipped by demo mode and the stamp is still 1
C20_Witness ==
  /\ lastCall = "accepted" /\ cycleExit = "demo" /\ policy.demoMode
  /\ lastRun = 1 /\ Len(tasks) = 1 /\ AllTasksSettled

\* ------------------------------------------ claims on the reconciler's guard
\* a call of syncConfigJobsToDatabase: manual, from the debounce timer, or
\* from initConfigJobSync at startup
SyncCall == triggerSync \/ DebounceFire \/ initConfigJobSync

StoreAfterSync(source, st) ==
  LET currentConfig == replaceEnvPlaceholdersSimple(source)
      synced        == SyncJobs(1, currentConfig, st, {})
      jobsToRemove  == JobsToRemove(ExistingJobs(st), ConfigJobIds(currentConfig.jobs))
  IN  RemoveJobs(jobsToRemove, 1, synced.store, 0).store

\* the store holds what the file declares: a sync would change nothing
Reflects == StoreAfterSync(file, store) = store

\* nothing of the reconciler is pending: initConfigJobSync has returned, no
\* sync is in flight and no debounce timer is set
AtRest == initPc = "done" /\ spc = "idle" /\ debounceTimer = <<>>

\* C22: a change of the file made while a sync is in progress, after that
\* sync has read the file, is not lost: once the debounced call for it was
\* made and nothing is pending any more, so that only a further change or a
\* manual trigger can start a sync, the store reflects the file's content.
C22_NoChangeIsLost == AtRest => Reflects

\* C23: after cleanup() has returned the watcher triggers no further sync:
\* the debounce timer's callback never runs while the watcher is closed, also
\* when a change event had armed the timer less than the quiet period before
\* cleanup().
C23_NoSyncAfterCleanup ==
  [][DebounceFire => fileWatcher]_vars

\* -------------------------------------------- claims on the external job API
\* C24: no request to the external job API (POST, PATCH, DELETE of /jobs)
\* modifies, re-owns or removes a store job owned by 'config_sync'.
C24_ApiLeavesOwnedJobs ==
  [][\A id \in JobIds : Owned(id) => store'[id] = store[id]]_vars

\* ------------------------------------ claims on the adapters a job is given
\* C25: normalization drops an adapter only when it has neither a type nor an
\* id: every adapter with a type and no id, whatever flat fields it has, is
\* converted to the canonical shape with its type as id.
C25_OnlyUntypedAdaptersAreDropped ==
  output # <<>> =>
    LET adapter == input[1]
        result  == output[1]
    IN  /\ result = <<>> => (adapter.type = "" /\ adapter.id = "")
        /\ (adapter.type # "" /\ adapter.id = "") =>
             (result # <<>> /\ result[1].id = adapter.type)

\* the entries of a list that are valid, each in the canonical shape
RECURSIVE ValidEntries(_)
ValidEntries(list) ==
  IF list = <<>> THEN <<>>
  ELSE (IF Usable(Head(list)) THEN convertNotificationAdapter(Head(list)) ELSE <<>>)
       \o ValidEntries(Tail(list))

\* the valid entries of the job's own list; none when the list is missing or
\* not a list
OwnValidEntries(jobConfig) ==
  IF jobConfig.notificationAdapter = <<>>
    THEN <<>>
    ELSE ValidEntries(jobConfig.notificationAdapter[1])

AttemptEnds == (report' # report \/ spc # spc') /\ spc' = "idle"

\* C27: getLastSyncTime() is null (0) until a sync has completed and never
\* decreases; it changes only when an attempt ends without a top-level
\* failure, so that a failed attempt and a call dropped by the in-progress
\* guard leave it as it was; and every attempt that ends without a top-level
\* failure records a time, whatever the number of jobs in the source.
C27_LastSyncTime ==
  /\ [][lastSyncTime' >= lastSyncTime]_vars
  /\ [][lastSyncTime' # lastSyncTime => (AttemptEnds /\ report'.outcome # "failed")]_vars
  /\ [][(AttemptEnds /\ report'.outcome # "failed") => lastSyncTime' \in DateNow(lastSyncTime)]_vars

\* ------------------------------------------------- claims on the triggers
\* the accepted call is in its cycle, or its cycle has ended in the same step
CycleEntered == cycleExit \in {"running", "demo", "hours", "noTasks", "readThrew"}

\* C28: the first thing the process does is to attempt a cycle, at startup
\* and without waiting for a tick; after that every interval tick and every
\* 'jobs:runAll' event calls execute(), and every such trigger that finds the
\* gate idle is accepted and starts a cycle.
C28_IdleTriggersStartACycle ==
  /\ [][~booted => (booted' /\ lastCall' = "accepted" /\ CycleEntered')]_vars
  /\ [][(Trigger /\ ~executionInFlight) => (lastCall' = "accepted" /\ CycleEntered')]_vars
  /\ [][(Trigger /\ executionInFlight) => lastCall' = "dropped"]_vars

\* C28 witness: a trigger found the gate idle and started a cycle; its two
\* tasks are with the runner and none of them has begun
C28_Witness ==
  /\ booted /\ lastCall = "accepted" /\ executionInFlight
  /\ cycleExit = "running" /\ lastRun = MaxTime
  /\ Len(tasks) = 2 /\ \A i \in DOMAIN pstate : pstate[i] = "queued"
  /\ activeConfig["p1"] # <<>>

\* ------------------------------------------------------- claims on progress
\* the runner is suspended in its loop (the race) or at its end (allSettled)
RunnerSuspended == rpc \in {"race", "all"}

\* a task of the set has been dispatched and has not settled
InFlight(i) == i \in executing /\ pstate[i] \in {"queued", "running", "caught"}

\* C29: when the event loop is fair and every dispatched task settles,
\* runWithConcurrency returns, every started cycle ends with the gate idle,
\* and a trigger that arrives after a cycle has ended starts a new one; the
\* runner never waits for a slot while no task is in flight.
C29_Progress ==
  /\ [](RunnerSuspended => <>(rpc = "returned"))
  /\ [](executionInFlight => <>(~executionInFlight /\ activeCycles = 0))
  /\ [][(Trigger /\ booted /\ ~executionInFlight) =>
          (lastCall' = "accepted" /\ CycleEntered')]_vars
  /\ []((rpc = "race" /\ raceWinner = 0) => \E i \in executing : InFlight(i))

\* C29 witness: a cycle of two tasks, one of which failed, has run to its end:
\* the runner has returned and the gate is idle again
C29_Witness ==
  /\ caller = "execute" /\ rpc = "returned" /\ cycleExit = "ran"
  /\ ~executionInFlight /\ activeCycles = 0
  /\ Len(tasks) = 2 /\ errLog # {}
  /\ \A i \in DOMAIN pstate : pstate[i] = "fulfilled" /\ startCount[i] = 1

====
